---- MODULE Spec2Model ----
(***************************************************************************)
(* Model of the asynchronous task waiter of the cluster test helpers:      *)
(* RunAdminQuery, Backup and WaitForTask, running against a Cluster whose  *)
(* AdminPost answers are chosen by the environment; and of the embedded    *)
(* assets: Asset, AssetInfo, AssetDir, RestoreAssets and the file system   *)
(* of assetOperator over them.                                             *)
(***************************************************************************)
EXTENDS Integers, Sequences, FiniteSets, TLC

(***************************************************************************)
(* Bounds.                                                                 *)
(***************************************************************************)
\* Status polls of one call that are recorded one by one; later polls still
\* happen, they are only counted as "more than MaxPolls".
MaxPolls == 3

\* Calls that may run; Solo is the set of calls of the sequential runs.
Calls == {1, 2}
Solo == {1}

TaskIds == {"t1", "t2"}
BackupPaths == {"/backups"}

(***************************************************************************)
(* The remote cluster: task statuses and the bodies AdminPost can return.  *)
(***************************************************************************)
TerminalStatuses == {"Success", "Failed", "Unknown"}
\* "Running" stands for every in-progress marker, "" for an absent status.
RunningStatuses == {"Running", ""}
Statuses == TerminalStatuses \cup RunningStatuses

TaskQuery == "query task($id: String!)"
BackupQuery == "mutation backup($dst: String!, $ff: Boolean!)"

\* A data payload: kind "nil" is an absent data member, "null" the JSON
\* null, "bad" a JSON value of the wrong shape for the target struct.
NoData == [kind |-> "nil", status |-> "", code |-> "", taskId |-> ""]
NullData == [kind |-> "null", status |-> "", code |-> "", taskId |-> ""]
BadData == [kind |-> "bad", status |-> "", code |-> "", taskId |-> ""]
TaskData(s) == [kind |-> "task", status |-> s, code |-> "", taskId |-> ""]
BackupData(cd, id) == [kind |-> "backup", status |-> "", code |-> cd, taskId |-> id]

BackupCodes == {"Success", "Error"}

\* A response body: kind "garbage" is a body that is not a JSON object.
GarbageBody == [kind |-> "garbage", errors |-> <<>>, data |-> NoData]
JsonBody(errs, d) == [kind |-> "json", errors |-> errs, data |-> d]
GqlErrorLists == {<<>>, <<"resolving failed">>}

VARIABLES
    taskStatus,   \* status the cluster currently reports for every task
    pc,           \* position of every call: idle, sleep, poll, done
    entry,        \* function a call was entered through
    params,       \* graphQLParams built by WaitForTask
    posts,        \* AdminPost calls of a call, request and answer, in order
    overflow,     \* a status poll happened after MaxPolls recorded ones
    sleeps,       \* time.Sleep calls of a call (MaxPolls + 1: more)
    raq,          \* input and output of the latest RunAdminQuery of a call
    ret           \* return value of a call: none (running), nil, or an error

\* The embedded assets and the http.FileSystem over them.
VARIABLES
    gz,           \* what decompressing the embedded data of each asset does
    call,         \* the latest call of the asset API: function, input, result
    file          \* the assetFile returned by Open, with its read offset

callVars == <<pc, entry, params, posts, overflow, sleeps, raq, ret>>
waiterVars == <<taskStatus, pc, entry, params, posts, overflow, sleeps, raq, ret>>
assetVars == <<gz, call, file>>
vars == <<taskStatus, pc, entry, params, posts, overflow, sleeps, raq, ret, gz, call, file>>

(***************************************************************************)
(* graphQLParams and encoding.                                             *)
(***************************************************************************)
BoolJSON(b) == IF b THEN "true" ELSE "false"

graphQLParams(query, variables) == [query |-> query, variables |-> variables]

NoParams == graphQLParams("", {})

\* Variant: the variables member is left out of the encoding.
Marshal_VariablesOmitted(p) == [err |-> FALSE, body |-> [query |-> p.query, variables |-> {}]]

\* json.Marshal of a graphQLParams whose variables are strings and booleans:
\* it cannot fail, and yields the object with members query and variables.
Marshal(p) == [err |-> FALSE, body |-> [query |-> p.query, variables |-> p.variables]]

\* json.Unmarshal of a response body into graphQLResponse.
UnmarshalGqlResp(body) ==
    IF body.kind = "garbage"
    THEN [err |-> TRUE, Data |-> NoData, Errors |-> <<>>]
    ELSE [err |-> FALSE, Data |-> body.data, Errors |-> body.errors]

\* json.Unmarshal of a data payload into statusResp: an absent payload is an
\* unexpected end of input, JSON null and members of other names leave the
\* zero value.
UnmarshalStatusResp(data) ==
    CASE data.kind \in {"nil", "bad"} -> [err |-> TRUE, Status |-> ""]
      [] data.kind = "task" -> [err |-> FALSE, Status |-> data.status]
      [] OTHER -> [err |-> FALSE, Status |-> ""]

\* json.Unmarshal of a data payload into backupResp.
UnmarshalBackupResp(data) ==
    CASE data.kind \in {"nil", "bad"} -> [err |-> TRUE, Code |-> "", TaskID |-> ""]
      [] data.kind = "backup" -> [err |-> FALSE, Code |-> data.code, TaskID |-> data.taskId]
      [] OTHER -> [err |-> FALSE, Code |-> "", TaskID |-> ""]

(***************************************************************************)
(* Cluster.AdminPost: the answers the cluster may give to a request.       *)
(***************************************************************************)
NoPost == [err |-> TRUE, body |-> GarbageBody]

\* The status payloads that report status s: an absent status is reported by
\* a task object without the member or by the JSON null.
StatusPayloads(s) == IF s = "" THEN {TaskData(""), NullData} ELSE {TaskData(s)}

PayloadsFor(req) ==
    IF req.query = TaskQuery
    THEN {NoData, BadData}
         \cup UNION {StatusPayloads(taskStatus[v[2]]) : v \in {w \in req.variables : w[1] = "id"}}
    ELSE {NoData, NullData, BadData}
         \cup {BackupData(cd, id) : cd \in BackupCodes, id \in TaskIds}

AdminPost(req) ==
    {NoPost}
    \cup {[err |-> FALSE, body |-> GarbageBody]}
    \cup {[err |-> FALSE, body |-> JsonBody(e, d)] : e \in GqlErrorLists, d \in PayloadsFor(req)}

(***************************************************************************)
(* RunAdminQuery, given the answer of its AdminPost call.                  *)
(***************************************************************************)
ErrMarshal == "error while marshalling params"
ErrAdminQuery == "error while running admin query"
ErrGqlDecode == "error unmarshalling GQL response"
ErrGqlErrors == "error while running admin query: gql errors"
ErrStatusDecode == "error unmarshalling status response"
ErrBackupDecode == "error unmarshalling backup response"
ErrBackupFailed == "backup failed"
ErrTaskFailed(s) == IF s = "Failed" THEN "task failed with status: Failed"
                    ELSE "task failed with status: Unknown"

\* Variant: errors are reported only when the answer has no data payload.
RunAdminQuery_DataWins(p, post) ==
    LET reqBody == Marshal(p)
        gqlResp == UnmarshalGqlResp(post.body)
    IN  IF reqBody.err THEN [data |-> NoData, err |-> ErrMarshal, sent |-> <<>>]
        ELSE IF post.err THEN [data |-> NoData, err |-> ErrAdminQuery, sent |-> <<reqBody.body>>]
        ELSE IF gqlResp.err THEN [data |-> NoData, err |-> ErrGqlDecode, sent |-> <<reqBody.body>>]
        ELSE IF Len(gqlResp.Errors) > 0 /\ gqlResp.Data.kind = "nil"
             THEN [data |-> NoData, err |-> ErrGqlErrors, sent |-> <<reqBody.body>>]
        ELSE [data |-> gqlResp.Data, err |-> "nil", sent |-> <<reqBody.body>>]

\* Variant: the error list of the answer is returned together with its data.
RunAdminQuery_DataWithError(p, post) ==
    LET reqBody == Marshal(p)
        gqlResp == UnmarshalGqlResp(post.body)
    IN  IF reqBody.err THEN [data |-> NoData, err |-> ErrMarshal, sent |-> <<>>]
        ELSE IF post.err THEN [data |-> NoData, err |-> ErrAdminQuery, sent |-> <<reqBody.body>>]
        ELSE IF gqlResp.err THEN [data |-> NoData, err |-> ErrGqlDecode, sent |-> <<reqBody.body>>]
        ELSE IF Len(gqlResp.Errors) > 0
             THEN [data |-> gqlResp.Data, err |-> ErrGqlErrors, sent |-> <<reqBody.body>>]
        ELSE [data |-> gqlResp.Data, err |-> "nil", sent |-> <<reqBody.body>>]

RunAdminQuery(p, post) ==
    LET reqBody == Marshal(p)
        gqlResp == UnmarshalGqlResp(post.body)
    IN  IF reqBody.err THEN [data |-> NoData, err |-> ErrMarshal, sent |-> <<>>]
        ELSE IF post.err THEN [data |-> NoData, err |-> ErrAdminQuery, sent |-> <<reqBody.body>>]
        ELSE IF gqlResp.err THEN [data |-> NoData, err |-> ErrGqlDecode, sent |-> <<reqBody.body>>]
        ELSE IF Len(gqlResp.Errors) > 0
             THEN [data |-> NoData, err |-> ErrGqlErrors, sent |-> <<reqBody.body>>]
        ELSE [data |-> gqlResp.Data, err |-> "nil", sent |-> <<reqBody.body>>]

(***************************************************************************)
(* One iteration of the loop of WaitForTask after the sleep: "continue"    *)
(* when the loop goes around, otherwise the value returned.                *)
(***************************************************************************)
\* Variants of the switch: one status is handled as the default case is.
StatusSwitch_SuccessRetried(status) ==
    CASE status \in {"Failed", "Unknown"} -> ErrTaskFailed(status)
      [] OTHER -> "continue"

StatusSwitch_FailedRetried(status) ==
    CASE status = "Success" -> "nil"
      [] status = "Unknown" -> ErrTaskFailed(status)
      [] OTHER -> "continue"

StatusSwitch_UnknownRetried(status) ==
    CASE status = "Success" -> "nil"
      [] status = "Failed" -> ErrTaskFailed(status)
      [] OTHER -> "continue"

StatusSwitch_OnlySuccessReturns(status) ==
    CASE status = "Success" -> "nil"
      [] OTHER -> "continue"

\* Variant: an absent status is handled as "Unknown" is.
StatusSwitch_EmptyIsUnknown(status) ==
    CASE status = "Success" -> "nil"
      [] status \in {"Failed", "Unknown", ""} -> ErrTaskFailed(status)
      [] OTHER -> "continue"

StatusSwitch(status) ==
    CASE status = "Success" -> "nil"
      [] status \in {"Failed", "Unknown"} -> ErrTaskFailed(status)
      [] OTHER -> "continue"

\* Variants of the iteration: one kind of failure makes the loop go around.
PollOutcome_RetryRequestError(out) ==
    LET statusResp == UnmarshalStatusResp(out.data)
    IN  IF out.err = ErrAdminQuery THEN "continue"
        ELSE IF out.err # "nil" THEN out.err
        ELSE IF statusResp.err THEN ErrStatusDecode
        ELSE StatusSwitch(statusResp.Status)

PollOutcome_RetryGqlErrors(out) ==
    LET statusResp == UnmarshalStatusResp(out.data)
    IN  IF out.err = ErrGqlErrors THEN "continue"
        ELSE IF out.err # "nil" THEN out.err
        ELSE IF statusResp.err THEN ErrStatusDecode
        ELSE StatusSwitch(statusResp.Status)

PollOutcome_DecodeErrorIgnored(out) ==
    LET statusResp == UnmarshalStatusResp(out.data)
    IN  IF out.err # "nil" THEN out.err
        ELSE StatusSwitch(statusResp.Status)

PollOutcome(out) ==
    LET statusResp == UnmarshalStatusResp(out.data)
    IN  IF out.err # "nil" THEN out.err
        ELSE IF statusResp.err THEN ErrStatusDecode
        ELSE StatusSwitch(statusResp.Status)

\* Backup after its RunAdminQuery: "wait" when it goes on to WaitForTask.
BackupOutcome(out) ==
    LET backupResp == UnmarshalBackupResp(out.data)
    IN  IF out.err # "nil" THEN out.err
        ELSE IF backupResp.err THEN ErrBackupDecode
        ELSE IF backupResp.Code # "Success" THEN ErrBackupFailed
        ELSE "wait"

(***************************************************************************)
(* The embedded assets. A name is a sequence of tokens: the path           *)
(* components of the asset tree and the two separators.                    *)
(***************************************************************************)
\* Longest name given to the asset API, in tokens.
MaxNameLen == 4

\* Width of int in the model; counts and offsets wrap around at this width
\* the way the 64-bit int of the program does.
IntBits == 4

Pow2(n) == 2 ^ n
MaxInt == Pow2(IntBits - 1) - 1
MinInt == 0 - Pow2(IntBits - 1)
Ints == MinInt..MaxInt
WrapInt(x) == ((x - MinInt) % Pow2(IntBits)) + MinInt

Slash == "/"
Backslash == "\\"
Components == {"css", "main.css", "favicon.ico", "js", "main.js"}
Tokens == Components \cup {Slash, Backslash}
Names == UNION {[1..k -> Tokens] : k \in 0..MaxNameLen}

\* strings.Replace(name, "\\", "/", -1)
Canonical(name) == [i \in 1..Len(name) |-> IF name[i] = Backslash THEN Slash ELSE name[i]]

\* strings.Split(name, "/"): the pieces between the separators, empty ones
\* included.
RECURSIVE Split(_)
Split(name) ==
    IF name = <<>> THEN << <<>> >>
    ELSE LET front == Split(SubSeq(name, 1, Len(name) - 1))
             last == name[Len(name)]
             n == Len(front)
         IN  IF last = Slash THEN Append(front, <<>>)
             ELSE [front EXCEPT ![n] = Append(front[n], last)]

\* filepath.Join(name, child) for a directory name of the tree, which
\* filepath.Clean leaves as it is: the empty element is ignored.
Join_ChildOnly(name, child) == <<child>>

Join(name, child) == IF name = <<>> THEN <<child>> ELSE name \o <<Slash, child>>

\* Errors: nil, the formatted "... not found" and "... can't read by error"
\* errors, and os.ErrNotExist.
NilErr == [kind |-> "nil", fn |-> "", name |-> <<>>]
NotFound(fn, name) == [kind |-> "not found", fn |-> fn, name |-> name]
CantRead(fn, name) == [kind |-> "can't read by error", fn |-> fn, name |-> name]
ReadErr(name) == [kind |-> "read", fn |-> "bindataRead", name |-> name]
ErrNotExist == [kind |-> "file does not exist", fn |-> "os", name |-> <<>>]
FsErr(name) == [kind |-> "write failed", fn |-> "os", name |-> name]

\* strings.Contains(err.Error(), "not found")
ContainsNotFound(err) == err.kind = "not found"

\* os.FileMode is 32 bits wide; it is kept as its two 16-bit halves.
\* os.ModeDir is bit 31.
FileMode(hi, lo) == [hi |-> hi, lo |-> lo]
HasModeDir(mode) == (mode.hi \div 32768) % 2 = 1

\* bindataFileInfo
bindataFileInfo(name, size, mode, modTime) ==
    [nil |-> FALSE, name |-> name, size |-> size, mode |-> mode, modTime |-> modTime]
NoInfo == [nil |-> TRUE, name |-> <<>>, size |-> 0, mode |-> FileMode(0, 0), modTime |-> 0]

IsDir(fi) == HasModeDir(fi.mode)

\* newDirFileInfo: mode 2147484068 = 32768 * 65536 + 420, that is
\* os.ModeDir | 0644.
newDirFileInfo_NoDirBit(name) == bindataFileInfo(name, 0, FileMode(0, 420), 0)

newDirFileInfo(name) == bindataFileInfo(name, 0, FileMode(32768, 420), 0)

\* Byte slices: nil, or the decompressed content of an asset.
NilBytes == [nil |-> TRUE, of |-> <<>>]
Content(key) == [nil |-> FALSE, of |-> key]

CssMainCssKey == <<"css", Slash, "main.css">>
FaviconIcoKey == <<"favicon.ico">>
JsMainJsKey == <<"js", Slash, "main.js">>
AssetKeys == {CssMainCssKey, FaviconIcoKey, JsMainJsKey}

\* What the three steps of decompressing some data do: gzip.NewReader,
\* io.Copy and gz.Close each succeed or fail.
GzipOk == [newReader |-> FALSE, copy |-> FALSE, close |-> FALSE]
GzipOutcomes ==
    {[newReader |-> FALSE, copy |-> c, close |-> cl] : c, cl \in BOOLEAN}
    \cup {[newReader |-> TRUE, copy |-> FALSE, close |-> FALSE]}

\* bindataRead(data, name), by what decompressing data does.
bindataRead(outcome, name) ==
    IF outcome.newReader THEN [bytes |-> NilBytes, err |-> ReadErr(name)]
    ELSE IF outcome.copy THEN [bytes |-> NilBytes, err |-> ReadErr(name)]
    ELSE IF outcome.close THEN [bytes |-> NilBytes, err |-> NilErr]
    ELSE [bytes |-> Content(name), err |-> NilErr]

\* The recorded info of each asset.
InfoOf(key) ==
    CASE key = CssMainCssKey -> bindataFileInfo(key, 99, FileMode(0, 438), 1613718750)
      [] key = FaviconIcoKey -> bindataFileInfo(key, 15086, FileMode(0, 438), 1612640817)
      [] key = JsMainJsKey -> bindataFileInfo(key, 23, FileMode(0, 438), 1613718745)

\* cssMainCss, faviconIco and jsMainJs: the generator of the asset of a key.
AssetFunc(key) ==
    LET r == bindataRead(gz[key], key)
    IN  IF r.err # NilErr THEN [nil |-> TRUE, bytes |-> NilBytes, info |-> NoInfo, err |-> r.err]
        ELSE [nil |-> FALSE, bytes |-> r.bytes, info |-> InfoOf(key), err |-> NilErr]

\* _bindata: the keys of the table; AssetFunc is the generator of each.
bindata == AssetKeys

Asset(name) ==
    LET cannonicalName == Canonical(name)
    IN  IF cannonicalName \in bindata
        THEN LET a == AssetFunc(cannonicalName)
             IN  IF a.err # NilErr
                 THEN [bytes |-> NilBytes, err |-> CantRead("Asset", name)]
                 ELSE [bytes |-> a.bytes, err |-> NilErr]
        ELSE [bytes |-> NilBytes, err |-> NotFound("Asset", name)]

\* Variant: the name is looked up as given.
AssetInfo_NameAsGiven(name) ==
    IF name \in bindata
    THEN LET a == AssetFunc(name)
         IN  IF a.err # NilErr
             THEN [info |-> NoInfo, err |-> CantRead("AssetInfo", name)]
             ELSE [info |-> a.info, err |-> NilErr]
    ELSE [info |-> NoInfo, err |-> NotFound("AssetInfo", name)]

AssetInfo(name) ==
    LET cannonicalName == Canonical(name)
    IN  IF cannonicalName \in bindata
        THEN LET a == AssetFunc(cannonicalName)
             IN  IF a.err # NilErr
                 THEN [info |-> NoInfo, err |-> CantRead("AssetInfo", name)]
                 ELSE [info |-> a.info, err |-> NilErr]
        ELSE [info |-> NoInfo, err |-> NotFound("AssetInfo", name)]

\* _bintree: a node is its Func (the key of its asset, <<>> for nil) and its
\* Children by name.
NilNode == [nil |-> TRUE, Func |-> <<>>, Children |-> <<>>]
Leaf(key) == [nil |-> FALSE, Func |-> key, Children |-> <<>>]
Tree(children) == [nil |-> FALSE, Func |-> <<>>, Children |-> children]
bintree ==
    Tree("css" :> Tree("main.css" :> Leaf(CssMainCssKey))
         @@ "favicon.ico" :> Leaf(FaviconIcoKey)
         @@ "js" :> Tree("main.js" :> Leaf(JsMainJsKey)))

\* The names of the children of a node.
ChildNames(node) == IF node.Children = <<>> THEN {} ELSE DOMAIN node.Children

\* node.Children[p] for a piece p of a split name: nil when no child has
\* that name.
Child(node, p) ==
    IF Len(p) = 1 /\ p[1] \in ChildNames(node) THEN node.Children[p[1]] ELSE NilNode

\* The loop of AssetDir over the pieces of the name, from a node.
RECURSIVE Walk(_, _)
Walk(node, pathList) ==
    IF pathList = <<>> \/ node.nil THEN node
    ELSE Walk(Child(node, Head(pathList)), Tail(pathList))

\* Variant: the node of an asset is listed like a directory.
AssetDirNode_FilesListed(name) ==
    LET node == IF Len(name) # 0 THEN Walk(bintree, Split(Canonical(name))) ELSE bintree
    IN  IF node.nil THEN [err |-> NotFound("Asset", name), children |-> {}]
        ELSE [err |-> NilErr, children |-> ChildNames(node)]

\* AssetDir up to the listing: the error, or the names to list.
AssetDirNode(name) ==
    LET node == IF Len(name) # 0 THEN Walk(bintree, Split(Canonical(name))) ELSE bintree
    IN  IF node.nil THEN [err |-> NotFound("Asset", name), children |-> {}]
        ELSE IF node.Func # <<>> THEN [err |-> NotFound("Asset", name), children |-> {}]
        ELSE [err |-> NilErr, children |-> ChildNames(node)]

\* The orders in which ranging over a map of the names S may list them.
Orders(S) == {o \in [1..Cardinality(S) -> S] : \A i, j \in 1..Cardinality(S) : o[i] = o[j] => i = j}

\* AssetDir(name), listing in the order given for the children.
AssetDir(name, order) ==
    LET r == AssetDirNode(name)
    IN  IF r.err # NilErr THEN [rv |-> <<>>, nil |-> TRUE, err |-> r.err]
        ELSE [rv |-> order, nil |-> FALSE, err |-> NilErr]

\* assetFile
assetFile(name, bytes, childInfos) ==
    [nil |-> FALSE, name |-> name, bytes |-> bytes, childInfos |-> childInfos,
     childInfoOffset |-> 0]
NoFile ==
    [nil |-> TRUE, name |-> <<>>, bytes |-> NilBytes, childInfos |-> <<>>,
     childInfoOffset |-> 0]

\* Variant: the name is used as given.
TrimLeadingSlash_None(name) == name

\* The head of Open: one leading '/' is cut off.
TrimLeadingSlash(name) ==
    IF Len(name) > 0 /\ name[1] = Slash THEN Tail(name) ELSE name

\* assetOperator.Open(name), AssetDir listing in the order given. branch
\* names the return statement taken.
Open(name, order) ==
    LET n == TrimLeadingSlash(name)
        a == Asset(n)
        d == AssetDir(n, order)
        childInfos ==
            [i \in 1..Len(d.rv) |->
                LET childPath == Join(n, d.rv[i])
                    info == AssetInfo(childPath)
                IN  IF info.err = NilErr THEN info.info ELSE newDirFileInfo(childPath)]
    IN  IF a.err = NilErr
        THEN [file |-> assetFile(n, a.bytes, <<>>), err |-> NilErr, branch |-> "asset"]
        ELSE IF d.err = NilErr
        THEN [file |-> assetFile(n, NilBytes, childInfos), err |-> NilErr, branch |-> "dir"]
        ELSE IF ContainsNotFound(d.err)
        THEN [file |-> NoFile, err |-> ErrNotExist, branch |-> "ErrNotExist"]
        ELSE [file |-> NoFile, err |-> d.err, branch |-> "err"]

\* assetFile.Readdir(count) on file f. The sums are those of int; the slice
\* expression childInfos[offset : offset+count] panics when its bounds are
\* not 0 <= low <= high <= cap, after the offset has been advanced.
Readdir(f, count) ==
    LET len == Len(f.childInfos)
        clamped == IF WrapInt(f.childInfoOffset + count) > len
                   THEN WrapInt(len - f.childInfoOffset)
                   ELSE count
        offset == f.childInfoOffset
        high == WrapInt(offset + clamped)
    IN  IF len = 0
        THEN [infos |-> <<>>, err |-> ErrNotExist, childInfoOffset |-> offset, panic |-> FALSE]
        ELSE IF count <= 0
        THEN [infos |-> f.childInfos, err |-> NilErr, childInfoOffset |-> offset, panic |-> FALSE]
        ELSE IF 0 <= offset /\ offset <= high /\ high <= len
        THEN [infos |-> SubSeq(f.childInfos, offset + 1, high), err |-> NilErr,
              childInfoOffset |-> high, panic |-> FALSE]
        ELSE [infos |-> <<>>, err |-> NilErr, childInfoOffset |-> high, panic |-> TRUE]

\* assetFile.Stat() on file f.
Stat(f) ==
    IF Len(f.childInfos) # 0
    THEN [info |-> newDirFileInfo(f.name), err |-> NilErr]
    ELSE AssetInfo(f.name)

\* RestoreAsset(dir, name): the error it returns. The directory only
\* prefixes the paths written; fsFail are the assets for which MkdirAll,
\* WriteFile or Chtimes fails.
RestoreAsset(name, fsFail) ==
    IF Asset(name).err # NilErr THEN Asset(name).err
    ELSE IF AssetInfo(name).err # NilErr THEN AssetInfo(name).err
    ELSE IF Canonical(name) \in fsFail THEN FsErr(name)
    ELSE NilErr

\* The names AssetDir lists, and an order of listing for each of them.
Dirs == {<<>>, <<"css">>, <<"js">>}
DirOrders ==
    {(<<>> :> top) @@ (<<"css">> :> css) @@ (<<"js">> :> js) :
        top \in Orders(AssetDirNode(<<>>).children),
        css \in Orders(AssetDirNode(<<"css">>).children),
        js \in Orders(AssetDirNode(<<"js">>).children)}

\* RestoreAssets(dir, name): the error returned and the names RestoreAsset
\* was called with, in order. RestoreChildren is its loop over the children.
RECURSIVE RestoreAssets(_, _, _)
RECURSIVE RestoreChildren(_, _, _, _)
RestoreChildren(name, children, ord, fsFail) ==
    IF children = <<>> THEN [err |-> NilErr, calls |-> <<>>]
    ELSE LET r == RestoreAssets(Join(name, Head(children)), ord, fsFail)
             rest == RestoreChildren(name, Tail(children), ord, fsFail)
         IN  IF r.err # NilErr THEN r
             ELSE [err |-> rest.err, calls |-> r.calls \o rest.calls]

RestoreAssets(name, ord, fsFail) ==
    LET d == AssetDir(name, IF name \in DOMAIN ord THEN ord[name] ELSE <<>>)
    IN  IF d.err # NilErr
        THEN [err |-> RestoreAsset(name, fsFail), calls |-> <<name>>]
        ELSE RestoreChildren(name, d.rv, ord, fsFail)

(***************************************************************************)
(* Observers.                                                              *)
(***************************************************************************)
Record(log, out, post) ==
    log \o [i \in 1..Len(out.sent) |-> [req |-> out.sent[i], resp |-> post]]

StatusPolls(c) == SelectSeq(posts[c], LAMBDA e : e.req.query = TaskQuery)
NumPolls(c) == Len(StatusPolls(c))
Bump(n) == IF n <= MaxPolls THEN n + 1 ELSE n

NoRaq == [called |-> FALSE, post |-> NoPost, data |-> NoData, err |-> "nil", nsent |-> 0]
RaqOf(post, out) ==
    [called |-> TRUE, post |-> post, data |-> out.data, err |-> out.err, nsent |-> Len(out.sent)]

(***************************************************************************)
(* State machine.                                                          *)
(***************************************************************************)
\* A call of the asset API: its function, its inputs and what it returned.
NoCall ==
    [fn |-> "none", name |-> <<>>, count |-> 0, offset |-> 0, bytes |-> NilBytes,
     info |-> NoInfo, rv |-> <<>>, infos |-> <<>>, err |-> NilErr, branch |-> "",
     restored |-> <<>>, fsFail |-> {}, panic |-> FALSE]
Pending(name) == [NoCall EXCEPT !.name = name]

\* The embedded data of every asset decompresses.
AssetsIdle ==
    /\ gz = [k \in AssetKeys |-> GzipOk]
    /\ call = NoCall
    /\ file = NoFile

WaiterIdle ==
    /\ taskStatus = [id \in TaskIds |-> "Running"]
    /\ pc = [c \in Calls |-> "idle"]
    /\ entry = [c \in Calls |-> "none"]
    /\ params = [c \in Calls |-> NoParams]
    /\ posts = [c \in Calls |-> <<>>]
    /\ overflow = [c \in Calls |-> FALSE]
    /\ sleeps = [c \in Calls |-> 0]
    /\ raq = [c \in Calls |-> NoRaq]
    /\ ret = [c \in Calls |-> "none"]

Init == WaiterIdle /\ AssetsIdle

\* Task id is polled by a call that has not returned. Only then can a status
\* be observed, so only then are changes of the status tracked.
Awaited(id) ==
    \E c \in Calls : pc[c] \in {"sleep", "poll"} /\ <<"id", id>> \in params[c].variables

\* The cluster reports another status for an awaited task.
TaskProgress(id) ==
    /\ Awaited(id)
    /\ \E s \in Statuses \ {taskStatus[id]} :
          taskStatus' = [taskStatus EXCEPT ![id] = s]
    /\ UNCHANGED callVars
    /\ UNCHANGED assetVars

\* WaitForTask up to its loop: the query parameters are built once.
WaitForTaskParams(taskId) == graphQLParams(TaskQuery, {<<"id", taskId>>})

WaitForTask(c, taskId) ==
    /\ pc[c] = "idle"
    /\ pc' = [pc EXCEPT ![c] = "sleep"]
    /\ entry' = [entry EXCEPT ![c] = "WaitForTask"]
    /\ params' = [params EXCEPT ![c] = WaitForTaskParams(taskId)]
    /\ UNCHANGED <<taskStatus, posts, overflow, sleeps, raq, ret>>
    /\ UNCHANGED assetVars

\* Variant: params is one package-level variable, overwritten by the call
\* that entered last (here: by any other call that has entered).
LoopParams_PackageLevel(c) ==
    IF \E d \in Calls \ {c} : params[d].query = TaskQuery
    THEN params[CHOOSE d \in Calls \ {c} : params[d].query = TaskQuery]
    ELSE params[c]

\* The params the loop of call c passes to RunAdminQuery: its own local.
LoopParams(c) == params[c]

\* time.Sleep(waitDurBeforeRetry) at the head of every iteration.
WaitForTask_Sleep(c) ==
    /\ pc[c] = "sleep"
    /\ pc' = [pc EXCEPT ![c] = "poll"]
    /\ sleeps' = [sleeps EXCEPT ![c] = Bump(sleeps[c])]
    /\ UNCHANGED <<taskStatus, entry, params, posts, overflow, raq, ret>>
    /\ UNCHANGED assetVars

\* The rest of the iteration: the status query and the switch on its result.
WaitForTask_Poll(c) ==
    /\ pc[c] = "poll"
    /\ \E post \in AdminPost(Marshal(LoopParams(c)).body) :
          LET out == RunAdminQuery(LoopParams(c), post)
              res == PollOutcome(out)
          IN  /\ raq' = [raq EXCEPT ![c] = RaqOf(post, out)]
              /\ IF NumPolls(c) < MaxPolls
                 THEN /\ posts' = [posts EXCEPT ![c] = Record(posts[c], out, post)]
                      /\ UNCHANGED overflow
                 ELSE /\ overflow' = [overflow EXCEPT ![c] = TRUE]
                      /\ UNCHANGED posts
              /\ IF res = "continue"
                 THEN /\ pc' = [pc EXCEPT ![c] = "sleep"]
                      /\ UNCHANGED ret
                 ELSE /\ pc' = [pc EXCEPT ![c] = "done"]
                      /\ ret' = [ret EXCEPT ![c] = res]
    /\ UNCHANGED <<taskStatus, entry, params, sleeps>>
    /\ UNCHANGED assetVars

\* Backup: the mutation, the decoding of its answer, and the entry into
\* WaitForTask with the task id of the answer.
Backup(c, forceFull, backupPath) ==
    /\ pc[c] = "idle"
    /\ entry' = [entry EXCEPT ![c] = "Backup"]
    /\ LET p == graphQLParams(BackupQuery,
                              {<<"dst", backupPath>>, <<"ff", BoolJSON(forceFull)>>})
       IN  \E post \in AdminPost(Marshal(p).body) :
              LET out == RunAdminQuery(p, post)
                  res == BackupOutcome(out)
              IN  /\ raq' = [raq EXCEPT ![c] = RaqOf(post, out)]
                  /\ posts' = [posts EXCEPT ![c] = Record(posts[c], out, post)]
                  /\ IF res = "wait"
                     THEN /\ pc' = [pc EXCEPT ![c] = "sleep"]
                          /\ params' = [params EXCEPT ![c] =
                                WaitForTaskParams(UnmarshalBackupResp(out.data).TaskID)]
                          /\ UNCHANGED ret
                     ELSE /\ pc' = [pc EXCEPT ![c] = "done"]
                          /\ ret' = [ret EXCEPT ![c] = res]
                          /\ UNCHANGED params
    /\ UNCHANGED <<taskStatus, overflow, sleeps>>
    /\ UNCHANGED assetVars

Next ==
    \/ \E id \in TaskIds : TaskProgress(id)
    \/ \E c \in Solo, id \in TaskIds : WaitForTask(c, id)
    \/ \E c \in Solo : WaitForTask_Sleep(c)
    \/ \E c \in Solo : WaitForTask_Poll(c)
    \/ \E c \in Solo, ff \in BOOLEAN, path \in BackupPaths : Backup(c, ff, path)

Spec == Init /\ [][Next]_vars

(***************************************************************************)
(* Fair runs: an iteration of the loop that can be taken is taken.         *)
(***************************************************************************)
FairSpec ==
    /\ Spec
    /\ \A c \in Solo : WF_vars(WaitForTask_Sleep(c)) /\ WF_vars(WaitForTask_Poll(c))

(***************************************************************************)
(* The asset API. A run applies one function of the package to a name, or  *)
(* opens the name and then reads the file returned.                        *)
(***************************************************************************)
AssetInit ==
    /\ WaiterIdle
    /\ gz = [k \in AssetKeys |-> GzipOk]
    /\ call \in {Pending(n) : n \in Names}
    /\ file = NoFile

CallAsset ==
    /\ call.fn = "none"
    /\ LET r == Asset(call.name)
       IN  call' = [call EXCEPT !.fn = "Asset", !.bytes = r.bytes, !.err = r.err]
    /\ UNCHANGED <<waiterVars, gz, file>>

CallAssetInfo ==
    /\ call.fn = "none"
    /\ LET r == AssetInfo(call.name)
       IN  call' = [call EXCEPT !.fn = "AssetInfo", !.info = r.info, !.err = r.err]
    /\ UNCHANGED <<waiterVars, gz, file>>

CallAssetDir ==
    /\ call.fn = "none"
    /\ \E order \in Orders(AssetDirNode(call.name).children) :
          LET r == AssetDir(call.name, order)
          IN  call' = [call EXCEPT !.fn = "AssetDir", !.rv = r.rv, !.err = r.err]
    /\ UNCHANGED <<waiterVars, gz, file>>

CallRestoreAssets ==
    /\ call.fn = "none"
    /\ \E ord \in DirOrders, fsFail \in SUBSET AssetKeys :
          LET r == RestoreAssets(call.name, ord, fsFail)
          IN  call' = [call EXCEPT !.fn = "RestoreAssets", !.fsFail = fsFail,
                                   !.restored = r.calls, !.err = r.err]
    /\ UNCHANGED <<waiterVars, gz, file>>

CallOpen ==
    /\ call.fn = "none"
    /\ \E order \in Orders(AssetDirNode(TrimLeadingSlash(call.name)).children) :
          LET r == Open(call.name, order)
          IN  /\ call' = [call EXCEPT !.fn = "Open", !.err = r.err, !.branch = r.branch]
              /\ file' = r.file
    /\ UNCHANGED <<waiterVars, gz>>

\* A panic of Readdir ends the use of the file.
CallReaddir(count) ==
    /\ ~file.nil
    /\ ~call.panic
    /\ LET r == Readdir(file, count)
       IN  /\ call' = [call EXCEPT !.fn = "Readdir", !.count = count,
                                   !.offset = file.childInfoOffset,
                                   !.infos = r.infos, !.err = r.err, !.panic = r.panic]
           /\ file' = [file EXCEPT !.childInfoOffset = r.childInfoOffset]
    /\ UNCHANGED <<waiterVars, gz>>

CallStat ==
    /\ ~file.nil
    /\ ~call.panic
    /\ LET r == Stat(file)
       IN  call' = [call EXCEPT !.fn = "Stat", !.info = r.info, !.err = r.err]
    /\ UNCHANGED <<waiterVars, gz, file>>

AssetNext ==
    \/ CallAsset
    \/ CallAssetInfo
    \/ CallAssetDir
    \/ CallRestoreAssets
    \/ CallOpen
    \/ \E count \in Ints : CallReaddir(count)
    \/ CallStat

AssetSpec == AssetInit /\ [][AssetNext]_vars

(***************************************************************************)
(* Loading an asset whose embedded data may fail to decompress: at most    *)
(* one of the three does, at one of the steps of bindataRead.              *)
(***************************************************************************)
ReadInit ==
    /\ WaiterIdle
    /\ gz \in {g \in [AssetKeys -> GzipOutcomes] :
                  Cardinality({k \in AssetKeys : g[k] # GzipOk}) <= 1}
    /\ call \in {Pending(n) : n \in Names}
    /\ file = NoFile

\* bindataRead on the embedded data of the asset the name is the key of.
CallBindataRead ==
    /\ call.fn = "none"
    /\ call.name \in AssetKeys
    /\ LET r == bindataRead(gz[call.name], call.name)
       IN  call' = [call EXCEPT !.fn = "bindataRead", !.bytes = r.bytes, !.err = r.err]
    /\ UNCHANGED <<waiterVars, gz, file>>

ReadNext ==
    \/ CallBindataRead
    \/ CallAsset
    \/ CallAssetInfo

ReadSpec == ReadInit /\ [][ReadNext]_vars

(***************************************************************************)
(* Vocabulary of the properties.                                           *)
(***************************************************************************)
Started(c) == params[c].query = TaskQuery
TaskIdOf(c) == CHOOSE id \in TaskIds : <<"id", id>> \in params[c].variables
Running(c) == pc[c] \in {"sleep", "poll"} /\ ret[c] = "none"
ReturnedError(c) == pc[c] = "done" /\ ret[c] \notin {"none", "nil"}

\* The answer of an AdminPost call, classified from the answer alone.
TransportFailed(resp) == resp.err
EnvelopeMalformed(resp) == ~resp.err /\ resp.body.kind = "garbage"
RemoteErrors(resp) == ~resp.err /\ resp.body.kind = "json" /\ resp.body.errors # <<>>
EnvelopeOk(resp) == ~resp.err /\ resp.body.kind = "json" /\ resp.body.errors = <<>>
PayloadMalformed(resp) == EnvelopeOk(resp) /\ resp.body.data.kind \in {"nil", "bad"}
DecodedStatus(resp, s) ==
    /\ EnvelopeOk(resp)
    /\ \/ resp.body.data.kind = "task" /\ resp.body.data.status = s
       \/ resp.body.data.kind \in {"null", "backup"} /\ s = ""
NonTerminalPoll(resp) == \E s \in Statuses \ TerminalStatuses : DecodedStatus(resp, s)

(***************************************************************************)
(* Concurrent runs: two calls of WaitForTask for different task ids        *)
(* against the same cluster, each polling at most ConcMaxPolls times. The  *)
(* cluster answers with a transport failure or a well-formed envelope      *)
(* without errors; the other answers are those of the sequential runs.     *)
(***************************************************************************)
ConcMaxPolls == 2

\* The task each call waits for: the two ids differ.
ConcTask(c) == IF c = 1 THEN "t1" ELSE "t2"

ConcNext ==
    \/ \E id \in TaskIds : TaskProgress(id)
    \/ \E c \in Calls : WaitForTask(c, ConcTask(c))
    \/ \E c \in Calls : WaitForTask_Sleep(c)
    \/ \E c \in Calls :
          /\ NumPolls(c) < ConcMaxPolls
          /\ WaitForTask_Poll(c)
          /\ TransportFailed(raq'[c].post) \/ EnvelopeOk(raq'[c].post)

ConcSpec == Init /\ [][ConcNext]_vars

\* Poll n is the last status query of call c.
LastPoll(c, n) == NumPolls(c) = n /\ ~overflow[c]

\* C1: when the first k status polls decode with a non-terminal status and
\* poll k+1 decodes with "Success", WaitForTask has returned nil after
\* exactly k+1 status queries and issues no query afterwards.
C1_SuccessAfterExactlyKPlus1 ==
    \A c \in Calls : \A n \in 1..NumPolls(c) :
        LET h == StatusPolls(c)
        IN  (/\ \A i \in 1..(n - 1) : NonTerminalPoll(h[i].resp)
             /\ DecodedStatus(h[n].resp, "Success"))
            => pc[c] = "done" /\ ret[c] = "nil" /\ LastPoll(c, n)

C1_Witness ==
    /\ entry[1] = "WaitForTask" /\ NumPolls(1) = 3 /\ ret[1] = "nil"
    /\ DecodedStatus(StatusPolls(1)[1].resp, "Running")
    /\ DecodedStatus(StatusPolls(1)[2].resp, "Running")
    /\ DecodedStatus(StatusPolls(1)[3].resp, "Success")

\* C2: a status poll that returns "Failed" makes WaitForTask return an
\* error at that poll, with no further status query.
C2_FailedStopsAtOnce ==
    \A c \in Calls : \A n \in 1..NumPolls(c) :
        DecodedStatus(StatusPolls(c)[n].resp, "Failed")
        => ReturnedError(c) /\ ret[c] = "task failed with status: Failed" /\ LastPoll(c, n)

C2_Witness ==
    /\ entry[1] = "WaitForTask" /\ NumPolls(1) = 1 /\ ReturnedError(1)
    /\ DecodedStatus(StatusPolls(1)[1].resp, "Failed")

\* C3: a status poll that returns "Unknown" makes WaitForTask return an
\* error at that poll, with no further status query.
C3_UnknownStopsAtOnce ==
    \A c \in Calls : \A n \in 1..NumPolls(c) :
        DecodedStatus(StatusPolls(c)[n].resp, "Unknown")
        => ReturnedError(c) /\ ret[c] = "task failed with status: Unknown" /\ LastPoll(c, n)

C3_Witness ==
    /\ entry[1] = "WaitForTask" /\ NumPolls(1) = 1 /\ ReturnedError(1)
    /\ DecodedStatus(StatusPolls(1)[1].resp, "Unknown")

\* C4: when the AdminPost call of the n-th status poll fails, WaitForTask
\* returns that error after exactly n polls and does not retry the call.
C4_TransportErrorNotRetried ==
    \A c \in Calls : \A n \in 1..NumPolls(c) :
        TransportFailed(StatusPolls(c)[n].resp)
        => ReturnedError(c) /\ ret[c] = ErrAdminQuery /\ LastPoll(c, n)

C4_Witness ==
    /\ entry[1] = "WaitForTask" /\ NumPolls(1) = 2 /\ ReturnedError(1)
    /\ NonTerminalPoll(StatusPolls(1)[1].resp)
    /\ TransportFailed(StatusPolls(1)[2].resp)

\* C5: when the answer to the backup mutation carries a non-empty error
\* list, Backup returns an error and no status query and no sleep is issued.
C5_BackupErrorsBeforePolling ==
    \A c \in Calls :
        (entry[c] = "Backup" /\ Len(posts[c]) > 0 /\ RemoteErrors(posts[c][1].resp))
        => /\ ReturnedError(c)
           /\ NumPolls(c) = 0 /\ ~overflow[c] /\ sleeps[c] = 0
           /\ Len(posts[c]) = 1

C5_Witness ==
    /\ entry[1] = "Backup" /\ RemoteErrors(posts[1][1].resp)
    /\ posts[1][1].resp.body.data.kind = "backup"
    /\ posts[1][1].resp.body.data.code = "Success"
    /\ pc[1] = "done"

C7_NoRetryLimit ==
    \A c \in Calls :
        /\ (/\ Started(c) /\ ~overflow[c]
            /\ \A i \in 1..NumPolls(c) : NonTerminalPoll(StatusPolls(c)[i].resp))
           => Running(c)
        /\ (Started(c) /\ pc[c] = "done") => ~NonTerminalPoll(raq[c].post)

C7_Witness ==
    /\ NumPolls(1) = MaxPolls /\ Running(1)
    /\ \A i \in 1..MaxPolls : NonTerminalPoll(StatusPolls(1)[i].resp)
    /\ \E i \in 1..MaxPolls : StatusPolls(1)[i].resp.body.data = TaskData("")

\* C8: status poll n+1 is issued only if poll n completed without
\* transport, decode or remote error and returned a non-terminal status.
C8_OnlyNonTerminalRetried ==
    \A c \in Calls :
        LET h == StatusPolls(c)
        IN  /\ \A i \in 1..(Len(h) - 1) : NonTerminalPoll(h[i].resp)
            /\ overflow[c] => \A i \in 1..Len(h) : NonTerminalPoll(h[i].resp)

C8_Witness ==
    /\ NumPolls(1) = 3 /\ pc[1] = "done"
    /\ RemoteErrors(StatusPolls(1)[3].resp)

\* C9: a malformed answer to a status poll (envelope or status payload
\* that cannot be decoded) or an answer with a non-empty error list makes
\* WaitForTask return an error at that poll, with no further status query.
C9_MalformedStopsAtOnce ==
    \A c \in Calls : \A n \in 1..NumPolls(c) :
        LET resp == StatusPolls(c)[n].resp
        IN  (EnvelopeMalformed(resp) \/ PayloadMalformed(resp) \/ RemoteErrors(resp))
            => ReturnedError(c) /\ LastPoll(c, n)

C9_Witness ==
    /\ NumPolls(1) = 2 /\ ReturnedError(1)
    /\ PayloadMalformed(StatusPolls(1)[2].resp)
    /\ ret[1] = ErrStatusDecode

\* C10: if the status of the awaited task eventually is "Success", "Failed"
\* or "Unknown" for good, a fair run of WaitForTask eventually returns.
C10_EventuallyReturns ==
    \A c \in Calls :
        (<>[](Started(c) /\ taskStatus[TaskIdOf(c)] \in TerminalStatuses))
        => <>(pc[c] = "done" /\ ret[c] # "none")

C10_Witness ==
    /\ Started(1) /\ pc[1] = "done" /\ NumPolls(1) >= 2
    /\ taskStatus[TaskIdOf(1)] = "Unknown"
    /\ ret[1] = "task failed with status: Unknown"

\* The state of one call.
CallState(c) == <<pc[c], entry[c], params[c], posts[c], overflow[c], sleeps[c], raq[c], ret[c]>>

\* What a call that ran alone has returned after the status answers h.
SoloRet(h) ==
    IF h = <<>> THEN "none"
    ELSE LET r == h[Len(h)].resp
         IN  CASE TransportFailed(r) -> "error while running admin query"
               [] EnvelopeMalformed(r) -> "error unmarshalling GQL response"
               [] RemoteErrors(r) -> "error while running admin query: gql errors"
               [] PayloadMalformed(r) -> "error unmarshalling status response"
               [] DecodedStatus(r, "Success") -> "nil"
               [] DecodedStatus(r, "Failed") -> "task failed with status: Failed"
               [] DecodedStatus(r, "Unknown") -> "task failed with status: Unknown"
               [] OTHER -> "none"

\* The request of the status query for task id.
StatusRequest(id) == [query |-> TaskQuery, variables |-> {<<"id", id>>}]

\* C11: two concurrent WaitForTask calls for different task ids share no
\* mutable state: a step changes the state of one call only, every query of
\* a call asks for its own task, and the return value and the number of
\* polls of a call are those of a call that ran alone on its own answers.
C11_ConcurrentCallsIndependent ==
    /\ [](\A c \in Calls : Started(c) =>
            LET h == StatusPolls(c)
            IN  /\ \A d \in Calls \ {c} : Started(d) => TaskIdOf(d) # TaskIdOf(c)
                /\ \A i \in 1..Len(h) : h[i].req = StatusRequest(TaskIdOf(c))
                /\ \A i \in 1..(Len(h) - 1) : NonTerminalPoll(h[i].resp)
                /\ ret[c] = SoloRet(h)
                /\ (pc[c] = "done") <=> (ret[c] # "none"))
    /\ [][\A c \in Calls : CallState(c)' # CallState(c) =>
            /\ taskStatus' = taskStatus
            /\ \A d \in Calls \ {c} : CallState(d)' = CallState(d)]_vars

C11_Witness ==
    /\ entry[1] = "WaitForTask" /\ entry[2] = "WaitForTask"
    /\ TaskIdOf(1) # TaskIdOf(2)
    /\ NumPolls(1) = 2 /\ ret[1] = "nil"
    /\ NumPolls(2) = 1 /\ ret[2] = "task failed with status: Failed"

\* C12: WaitForTask sleeps only in response to a non-terminal status
\* answer: a call about to issue poll k+1 has slept k times, and a call
\* that returned after n polls has slept n-1 times (not at all for n = 1).
C12_SleepsOnlyAfterNonTerminal ==
    \A c \in Calls : (Started(c) /\ ~overflow[c]) =>
        /\ pc[c] = "poll" => sleeps[c] = NumPolls(c)
        /\ pc[c] = "done" => sleeps[c] = NumPolls(c) - 1

\* C13: every status query of one call carries the query text and the
\* variable id = taskId of the first one, whatever was answered in between;
\* the parameters never change once built, and a step of the call changes
\* nothing but the record of its AdminPost calls and sleeps.
C13_SameQueryEveryPoll ==
    /\ [](\A c \in Calls : Started(c) =>
            \A i \in 1..NumPolls(c) :
                /\ StatusPolls(c)[i].req = StatusPolls(c)[1].req
                /\ StatusPolls(c)[i].req = StatusRequest(TaskIdOf(c)))
    /\ [][\A c \in Calls :
            /\ Started(c) => params'[c] = params[c]
            /\ CallState(c)' # CallState(c) => taskStatus' = taskStatus]_vars

C13_Witness ==
    /\ entry[1] = "WaitForTask" /\ NumPolls(1) = 3
    /\ DecodedStatus(StatusPolls(1)[1].resp, "Running")
    /\ StatusPolls(1)[2].resp.body.data = NullData
    /\ StatusPolls(1)[3].resp.body.data = TaskData("Failed")
    /\ \A i \in 1..3 : StatusPolls(1)[i].req = StatusRequest(TaskIdOf(1))

(***************************************************************************)
(* Vocabulary of the asset properties, from the keys of the asset table.   *)
(***************************************************************************)
\* The name is the name of an embedded asset once its backslashes are
\* slashes.
NamesAsset(name) ==
    Canonical(name) \in {<<"css", "/", "main.css">>, <<"favicon.ico">>, <<"js", "/", "main.js">>}

\* C14: Asset and AssetInfo succeed on the names whose form with '/' for
\* every backslash is "css/main.css", "favicon.ico" or "js/main.js", and
\* on every other name both return nothing and a "not found" error.
C14_AssetAndInfoSameNames ==
    /\ call.fn = "Asset" =>
          /\ NamesAsset(call.name) => call.err = NilErr /\ ~call.bytes.nil
          /\ ~NamesAsset(call.name) => call.err.kind = "not found" /\ call.bytes.nil
          /\ (call.err = NilErr) = (AssetInfo(call.name).err = NilErr)
    /\ call.fn = "AssetInfo" =>
          /\ NamesAsset(call.name) => call.err = NilErr /\ ~call.info.nil
          /\ ~NamesAsset(call.name) => call.err.kind = "not found" /\ call.info.nil
          /\ (call.err = NilErr) = (Asset(call.name).err = NilErr)

\* AssetInfo has succeeded on a name written with a backslash.
C14_Witness ==
    /\ call.fn = "AssetInfo"
    /\ call.name = <<"css", "\\", "main.css">>
    /\ call.err = NilErr
    /\ call.info.size = 99

\* C15: when a step of decompressing the data of an asset fails (creating
\* the reader, copying, closing), bindataRead and Asset return a non-nil
\* error; Asset never returns nil bytes together with a nil error.
C15_LoadFailureIsAnError ==
    /\ call.fn = "bindataRead" /\ gz[call.name] # GzipOk => call.err # NilErr
    /\ call.fn = "Asset" /\ NamesAsset(call.name) /\ gz[Canonical(call.name)] # GzipOk =>
          call.err # NilErr
    /\ call.fn = "Asset" => ~(call.bytes.nil /\ call.err = NilErr)

\* The '/'-separated components of a name; the empty name has none.
Pieces(name) == IF name = <<>> THEN <<>> ELSE Split(Canonical(name))

\* The assets whose key continues the components given.
KeysBelow(pieces) ==
    {k \in AssetKeys : /\ Len(Split(k)) > Len(pieces)
                       /\ SubSeq(Split(k), 1, Len(pieces)) = pieces}

\* The name is the name of a directory: some asset lies below it. Its
\* children are the next components of the keys of those assets.
NamesDir(name) == KeysBelow(Pieces(name)) # {}
ChildrenOf(name) == {Split(k)[Len(Pieces(name)) + 1][1] : k \in KeysBelow(Pieces(name))}
PathOfChild(name, child) == IF name = <<>> THEN <<child>> ELSE name \o <<"/", child>>

\* C16: AssetDir(name) returns the names of the immediate children of the
\* directory the name leads to, each once, the top-level names for the empty
\* name; for a name with a missing component and for the name of an asset it
\* returns a "not found" error and no list.
C16_AssetDirListsChildren ==
    call.fn = "AssetDir" =>
        /\ NamesDir(call.name) =>
              /\ call.err = NilErr
              /\ {call.rv[i] : i \in 1..Len(call.rv)} = ChildrenOf(call.name)
              /\ Len(call.rv) = Cardinality(ChildrenOf(call.name))
        /\ ~NamesDir(call.name) => call.err.kind = "not found" /\ call.rv = <<>>

\* AssetDir has listed the top level, not in sorted order.
C16_Witness ==
    /\ call.fn = "AssetDir"
    /\ call.name = <<>>
    /\ call.err = NilErr
    /\ call.rv = <<"js", "favicon.ico", "css">>

\* The name Open looks up: the name given without one leading '/'.
Opened(name) == IF name # <<>> /\ Head(name) = "/" THEN Tail(name) ELSE name

\* C17: Open(name), one leading '/' cut off, returns a file over the bytes
\* of the asset for the name of an asset, a file with one FileInfo for each
\* child for the name of a directory, and otherwise os.ErrNotExist and no
\* file; it never returns through the branch for other errors.
C17_OpenResult ==
    call.fn = "Open" =>
        LET n == Opened(call.name)
        IN  /\ NamesAsset(n) =>
                  /\ call.err = NilErr /\ ~file.nil
                  /\ file.bytes = [nil |-> FALSE, of |-> Canonical(n)]
                  /\ file.childInfos = <<>>
            /\ NamesDir(n) =>
                  /\ call.err = NilErr /\ ~file.nil
                  /\ Len(file.childInfos) = Cardinality(ChildrenOf(n))
                  /\ {file.childInfos[i].name : i \in 1..Len(file.childInfos)}
                        = {PathOfChild(n, c) : c \in ChildrenOf(n)}
            /\ ~NamesAsset(n) /\ ~NamesDir(n) => call.err = ErrNotExist /\ file.nil
            /\ call.branch # "err"

\* Open("/css") has returned the directory with its one child.
C17_Witness ==
    /\ call.fn = "Open"
    /\ call.name = <<"/", "css">>
    /\ call.err = NilErr
    /\ Len(file.childInfos) = 1
    /\ file.childInfos[1].name = <<"css", "/", "main.css">>

\* C18: RestoreAssets(dir, name), with every write to the file system
\* succeeding, calls RestoreAsset once for each asset that is name or lies
\* below the directory name and for no other path, whatever the order of
\* listing; it stops at the first RestoreAsset that fails and returns its
\* error; for a name of neither an asset nor a directory the error is "not
\* found".
C18_RestoreAssetsVisitsEachOnce ==
    call.fn = "RestoreAssets" =>
        LET n == call.name
            calls == call.restored
            last == calls[Len(calls)]
            below == IF NamesAsset(n) THEN {n} ELSE KeysBelow(Pieces(n))
        IN  /\ \A i, j \in 1..Len(calls) : calls[i] = calls[j] => i = j
            /\ call.fsFail = {} /\ (NamesAsset(n) \/ NamesDir(n)) =>
                  /\ call.err = NilErr
                  /\ {calls[i] : i \in 1..Len(calls)} = below
            /\ NamesAsset(n) \/ NamesDir(n) => \A i \in 1..Len(calls) : calls[i] \in below
            /\ ~NamesAsset(n) /\ ~NamesDir(n) =>
                  call.err.kind = "not found" /\ calls = <<n>>
            /\ call.err # NilErr =>
                  /\ calls # <<>>
                  /\ \A i \in 1..(Len(calls) - 1) :
                        NamesAsset(calls[i]) /\ Canonical(calls[i]) \notin call.fsFail
                  /\ call.err = IF NamesAsset(last)
                                THEN [kind |-> "write failed", fn |-> "os", name |-> last]
                                ELSE [kind |-> "not found", fn |-> "Asset", name |-> last]
                  /\ NamesAsset(last) => Canonical(last) \in call.fsFail
            /\ call.err = NilErr =>
                  \A i \in 1..Len(calls) : Canonical(calls[i]) \notin call.fsFail

\* RestoreAssets("") has restored the three assets, listing the top level
\* in an order that is not the sorted one.
C18_Witness ==
    /\ call.fn = "RestoreAssets"
    /\ call.name = <<>>
    /\ call.fsFail = {}
    /\ call.err = NilErr
    /\ call.restored = << <<"js", "/", "main.js">>, <<"css", "/", "main.css">>, <<"favicon.ico">> >>

\* The size recorded for the asset of a key.
RecordedSize(k) ==
    CASE k = <<"css", "/", "main.css">> -> 99
      [] k = <<"favicon.ico">> -> 15086
      [] k = <<"js", "/", "main.js">> -> 23

\* C19: Stat on a file returned by Open(name) succeeds; it reports a
\* directory (size 0, mode os.ModeDir|0644) exactly when the name is the
\* name of a directory, and otherwise the FileInfo recorded for the asset.
C19_StatResult ==
    call.fn = "Stat" =>
        LET n == Opened(call.name)
            isDir == call.info.mode.hi \div 32768 = 1
        IN  /\ call.err = NilErr
            /\ ~call.info.nil
            /\ isDir = NamesDir(n)
            /\ NamesDir(n) =>
                  /\ call.info.name = n
                  /\ call.info.size = 0
                  /\ call.info.mode = [hi |-> 32768, lo |-> 420]
            /\ ~NamesDir(n) =>
                  /\ call.info.name = Canonical(n)
                  /\ call.info.size = RecordedSize(Canonical(n))
                  /\ call.info.mode = [hi |-> 0, lo |-> 438]

\* Stat has reported the directory "js".
C19_Witness ==
    /\ call.fn = "Stat"
    /\ call.name = <<"js">>
    /\ call.err = NilErr
    /\ IsDir(call.info)
    /\ call.info.size = 0

\* C20: on a directory file the offset stays within 0..len(childInfos);
\* Readdir(count > 0) returns the next min(count, remaining) entries and
\* advances the offset by as many, Readdir(count <= 0) returns all entries
\* and leaves the offset; on a file without children Readdir returns
\* os.ErrNotExist.
C20_ReaddirOffsetWithinBounds ==
    /\ ~file.nil =>
          0 <= file.childInfoOffset /\ file.childInfoOffset <= Len(file.childInfos)
    /\ call.fn = "Readdir" =>
          LET len == Len(file.childInfos)
              remaining == len - call.offset
              n == IF call.count < remaining THEN call.count ELSE remaining
          IN  /\ ~call.panic
              /\ len = 0 => call.err = ErrNotExist
              /\ len > 0 /\ call.count <= 0 =>
                    /\ call.err = NilErr
                    /\ call.infos = file.childInfos
                    /\ file.childInfoOffset = call.offset
              /\ len > 0 /\ call.count > 0 =>
                    /\ call.err = NilErr
                    /\ call.infos = SubSeq(file.childInfos, call.offset + 1, call.offset + n)
                    /\ file.childInfoOffset = call.offset + n

====
